---- MODULE Spec2Model ----
(***************************************************************************)
(* 2PFx: Two-Point Flow lossless video compression (2pfx_prototype.py).    *)
(* A model of TwoPointFlowCompressor.compress and .decompress at the level *)
(* of the bytes of the container file.  A frame is a numpy array of shape  *)
(* (H, W, C): here a sequence of H rows, each a sequence of W pixels, each *)
(* a sequence of C channel values (indices are 1-based, the code's are     *)
(* 0-based).                                                               *)
(***************************************************************************)
EXTENDS Integers, Sequences, FiniteSets, TLC

\* ---- bounds of the model ------------------------------------------------
MaxSamples == 4     \* largest number of pixels (frames * H * W) of a valid list

\* ---- program constants --------------------------------------------------
MaxChannel == 255   \* largest uint8 channel value
EscapeCode == 8     \* the escape symbol
MaxDirect == 7      \* largest magnitude with a direct symbol
Int16Max == 32767   \* largest value of numpy int16 / struct "<h"

version == <<50, 80, 70, 88>>          \* b"2PFX"

\* ---- integer helpers ----------------------------------------------------
Abs(n) == IF n < 0 THEN -n ELSE n

Min(a, b) == IF a < b THEN a ELSE b

Max(a, b) == IF a > b THEN a ELSE b

\* numpy int16 arithmetic: the result is reduced modulo 2^16 into
\* -32768..32767
Wrap16(n) == ((n + Int16Max + 1) % (2 * (Int16Max + 1))) - (Int16Max + 1)

\* a | b on non-negative integers
RECURSIVE BitOr(_, _)
BitOr(a, b) ==
    IF a = 0 THEN b
    ELSE IF b = 0 THEN a
    ELSE (IF a % 2 = 1 \/ b % 2 = 1 THEN 1 ELSE 0) + 2 * BitOr(a \div 2, b \div 2)

\* a & b on non-negative integers
RECURSIVE BitAnd(_, _)
BitAnd(a, b) ==
    IF a = 0 \/ b = 0 THEN 0
    ELSE (IF a % 2 = 1 /\ b % 2 = 1 THEN 1 ELSE 0) + 2 * BitAnd(a \div 2, b \div 2)

\* struct.pack("<I", n)
PackI(n) == <<n % 256, (n \div 256) % 256, (n \div 65536) % 256, (n \div 16777216) % 256>>

\* struct.unpack("<I", b) of exactly four bytes
UnpackI(b) == b[1] + 256 * b[2] + 65536 * b[3] + 16777216 * b[4]

\* struct.pack("<h", comp): 16-bit two's complement, little-endian
PackH(comp) ==
    LET u == IF comp < 0 THEN comp + 2 * (Int16Max + 1) ELSE comp
    IN  <<u % 256, u \div 256>>

\* struct.unpack_from("<h", data, offset)[0] (offset is 0-based)
UnpackH(data, offset) ==
    LET u == data[offset + 1] + 256 * data[offset + 2]
    IN  IF u > Int16Max THEN u - 2 * (Int16Max + 1) ELSE u

\* ---- arrays -------------------------------------------------------------
Shape(a) == <<Len(a), Len(a[1]), Len(a[1][1])>>

\* np.zeros((h, w, c), dtype=np.int16)
Zeros(h, w, c) == [y \in 1..h |-> [x \in 1..w |-> [k \in 1..c |-> 0]]]

\* numpy broadcasting of two shapes
BroadcastOK(sa, sb) == \A i \in 1..3 : sa[i] = sb[i] \/ sa[i] = 1 \/ sb[i] = 1

BIdx(i, n) == IF n = 1 THEN 1 ELSE i

\* a - b on int16 arrays, with broadcasting
Subtract(a, b) ==
    LET sa == Shape(a)
        sb == Shape(b)
    IN  [y \in 1..Max(sa[1], sb[1]) |->
          [x \in 1..Max(sa[2], sb[2]) |->
            [k \in 1..Max(sa[3], sb[3]) |->
               Wrap16(a[BIdx(y, sa[1])][BIdx(x, sa[2])][BIdx(k, sa[3])]
                      - b[BIdx(y, sb[1])][BIdx(x, sb[2])][BIdx(k, sb[3])])]]]

\* ref_frame + delta on int16 arrays of one shape
AddInt16(a, b) ==
    [y \in 1..Len(a) |-> [x \in 1..Len(a[y]) |-> [k \in 1..Len(a[y][x]) |->
        Wrap16(a[y][x][k] + b[y][x][k])]]]

\* np.clip(frame_int, 0, 255).astype(np.uint8)
Clip(a) ==
    [y \in 1..Len(a) |-> [x \in 1..Len(a[y]) |-> [k \in 1..Len(a[y][x]) |->
        IF a[y][x][k] < 0 THEN 0
        ELSE IF a[y][x][k] > MaxChannel THEN MaxChannel ELSE a[y][x][k]]]]

\* ---- symbol codec (encoder side) ----------------------------------------
\* mutation: the sign test comp >= 0 written as comp > 0
SymbolOfStrictSign(comp) ==
    LET abs_c == Abs(comp)
    IN  IF abs_c <= MaxDirect
        THEN (IF comp > 0 THEN abs_c ELSE BitOr(EscapeCode, abs_c))
        ELSE EscapeCode

\* val of one delta component
SymbolOf(comp) ==
    LET abs_c == Abs(comp)
    IN  IF abs_c <= MaxDirect
        THEN (IF comp >= 0 THEN abs_c ELSE BitOr(EscapeCode, abs_c))
        ELSE EscapeCode

\* mutation: the side-channel test abs_c > 7 written as abs_c > 8
NeedsSideValueOffByOne(comp) == Abs(comp) > MaxDirect + 1

\* the test that appends the delta to decimal_vals
NeedsSideValue(comp) == Abs(comp) > MaxDirect

\* the packer state before the first symbol of a frame
PackStart == [binary_bits |-> <<>>, decimal_vals |-> <<>>, bit_count |-> 0,
              current_byte |-> 0, status |-> "ok"]

\* the body of the innermost loop, for one delta component
PutComp(st, comp) ==
    LET val == SymbolOf(comp)
        cur == BitOr(st.current_byte * 16, val)
        cnt == st.bit_count + 4
        full == cnt >= 8
    IN  [binary_bits  |-> IF full THEN Append(st.binary_bits, cur) ELSE st.binary_bits,
         current_byte |-> IF full THEN 0 ELSE cur,
         bit_count    |-> IF full THEN 0 ELSE cnt,
         decimal_vals |-> IF NeedsSideValue(comp)
                          THEN st.decimal_vals \o PackH(comp) ELSE st.decimal_vals,
         status       |-> st.status]

\* for comp in delta[y, x]
RECURSIVE PutPixel(_, _, _)
PutPixel(st, px, k) ==
    IF k > Len(px) THEN st ELSE PutPixel(PutComp(st, px[k]), px, k + 1)

\* for y in range(H): for x in range(W): ... ; delta[y, x] outside the array
\* raises IndexError
RECURSIVE PutPixels(_, _, _, _, _, _)
PutPixels(st, delta, H, W, y, x) ==
    IF y >= H THEN st
    ELSE IF x >= W THEN PutPixels(st, delta, H, W, y + 1, 0)
    ELSE IF y + 1 > Len(delta) \/ x + 1 > Len(delta[y + 1])
         THEN [st EXCEPT !.status = "IndexError"]
    ELSE PutPixels(PutPixel(st, delta[y + 1][x + 1], 1), delta, H, W, y, x + 1)

\* mutation: the last half-filled byte is not written
FlushTailDropped(st) == st

\* if bit_count > 0: pad the last byte with a zero low nibble
FlushTail(st) ==
    IF st.bit_count > 0
    THEN [st EXCEPT !.binary_bits = Append(st.binary_bits,
                                           st.current_byte * (2 ^ (8 - st.bit_count))),
                    !.current_byte = st.current_byte * (2 ^ (8 - st.bit_count))]
    ELSE st

\* binary_bits and decimal_vals of one frame
PackFrame(delta, H, W) ==
    LET st == PutPixels(PackStart, delta, H, W, 0, 0)
    IN  IF st.status = "ok" THEN FlushTail(st) ELSE st

\* the three writes of one frame record
RecordBytes(st) ==
    PackI(Len(st.binary_bits)) \o PackI(Len(st.decimal_vals))
        \o st.binary_bits \o st.decimal_vals

\* mutation: the reference is not advanced to the current frame
EncNextRefStale(frame_int, ref_frame) == ref_frame

\* ref_frame = frame_int.copy()
EncNextRef(frame_int, ref_frame) == frame_int

\* ---- symbol codec (decoder side) ----------------------------------------
\* mutation: the magnitude mask val & 7 written as val & 15
DeltaOfSymbolWideMask(val) == IF val <= MaxDirect THEN val ELSE -BitAnd(val, 15)

\* comp = val if val <= 7 else -(val & 7)
DeltaOfSymbol(val) == IF val <= MaxDirect THEN val ELSE -BitAnd(val, 7)

\* (bitstream >> (bits_left - 4)) & 0xF, where bitstream is
\* int.from_bytes(binary_data, "big"): bit s of that integer is bit s % 8 of
\* the byte s \div 8 places before the last
NibbleAt(binary_data, bits_left) ==
    LET s == bits_left - 4
        byte == binary_data[Len(binary_data) - (s \div 8)]
    IN  BitAnd(byte \div (2 ^ (s % 8)), 15)

\* the unpacker state before the first symbol of a frame
UnpackStart(binary_data, H, W) ==
    [delta |-> Zeros(H, W, 3), dec_offset |-> 0,
     bits_left |-> Len(binary_data) * 8, status |-> "ok"]

\* the body of the loop over c, after the test of bits_left, for one symbol
DecOne(st, rec, y, x, c) ==
    LET val == NibbleAt(rec.binary_data, st.bits_left)
        left == st.bits_left - 4
    IN  IF val = EscapeCode
        THEN IF st.dec_offset + 2 > rec.dec_len
             THEN [st EXCEPT !.bits_left = left,
                             !.status = "ValueError: Missing large delta bytes"]
             ELSE IF Len(rec.decimal_data) - st.dec_offset < 2
             THEN [st EXCEPT !.bits_left = left, !.status = "struct.error"]
             ELSE [st EXCEPT !.bits_left = left,
                             !.dec_offset = st.dec_offset + 2,
                             !.delta[y + 1][x + 1][c + 1] =
                                  UnpackH(rec.decimal_data, st.dec_offset)]
        ELSE [st EXCEPT !.bits_left = left,
                        !.delta[y + 1][x + 1][c + 1] = DeltaOfSymbol(val)]

\* for c in range(3): if bits_left < 4: break
RECURSIVE DecChannels(_, _, _, _, _)
DecChannels(st, rec, y, x, c) ==
    IF c >= 3 \/ st.status # "ok" \/ st.bits_left < 4 THEN st
    ELSE DecChannels(DecOne(st, rec, y, x, c), rec, y, x, c + 1)

\* while pixel_idx < H * W and bits_left >= 4
RECURSIVE DecPixels(_, _, _, _, _)
DecPixels(st, rec, H, W, pixel_idx) ==
    IF st.status # "ok" \/ ~(pixel_idx < H * W /\ st.bits_left >= 4) THEN st
    ELSE DecPixels(DecChannels(st, rec, pixel_idx \div W, pixel_idx % W, 0),
                   rec, H, W, pixel_idx + 1)

\* mutation: only an overrun of the declared length is reported
DecimalMismatchOverrunOnly(dec_offset, dec_len) == dec_offset > dec_len

\* if dec_offset != dec_len: raise
DecimalMismatch(dec_offset, dec_len) == dec_offset # dec_len

\* the symbol loop of one record followed by the length check
UnpackFrame(rec, H, W) ==
    LET st == DecPixels(UnpackStart(rec.binary_data, H, W), rec, H, W, 0)
    IN  IF st.status = "ok" /\ DecimalMismatch(st.dec_offset, rec.dec_len)
        THEN [st EXCEPT !.status = "ValueError: Decimal data mismatch"]
        ELSE st

\* mutation: the clipped output frame is kept as the reference
DecNextRefClipped(frame_int) == Clip(frame_int)

\* ref_frame = frame_int.copy()
DecNextRef(frame_int) == frame_int

\* f.read(n) at offset pos of the byte string data
Read(data, pos, n) == SubSeq(data, pos + 1, Min(pos + n, Len(data)))

\* ---- inputs of compress --------------------------------------------------
\* the pixels the frames are drawn from; their differences are the deltas
\* 0, 1, 7, 8, 15, 248, 255 and their negatives
Palette == {<<0, 0, 0>>, <<7, 8, 255>>, <<15, 1, 248>>}

\* the shapes <<n, H, W>> of the valid lists: n frames of H rows of W pixels
Dims == {d \in (1..MaxSamples) \X (1..MaxSamples) \X (1..MaxSamples) :
            d[1] * d[2] * d[3] <= MaxSamples}

FramesOf(h, w) == [1..h -> [1..w -> Palette]]

\* non-empty lists of RGB frames of one size
ValidInputs ==
    UNION {[1..d[1] -> FramesOf(d[2], d[3])] : d \in Dims}

\* lists that are empty, not RGB, or of mixed sizes
InvalidInputs ==
    { <<>>,
      << <<<<<<7, 8, 255, 0>>>>>> >>,
      << <<<<<<7>>>>>> >>,
      << <<<<<<7, 8, 255>>>>>>, <<<<<<15, 1, 248, 0>>>>>> >>,
      << <<<<<<7, 8, 255>>>>>>, <<<<<<15>>>>>> >>,
      << <<<<<<7, 8, 255>>>>>>, <<<<<<15, 1, 248>>, <<0, 0, 0>>>>>> >>,
      << <<<<<<7, 8, 255>>, <<0, 0, 0>>>>>>, <<<<<<15, 1, 248>>>>>> >>,
      << <<<<<<7, 8, 255>>, <<0, 0, 0>>>>>>, <<<<<<15, 1, 248>>>>>>,
         <<<<<<0, 0, 0>>>>>> >> }

\* what the encoder is documented to accept
IsValidInput(fs) ==
    /\ Len(fs) > 0
    /\ \A i \in 1..Len(fs) : Shape(fs[i]) = Shape(fs[1])
    /\ Shape(fs[1])[3] = 3

\* 16-bit values written over a side-channel entry of a stored file
CraftValues == {Int16Max, -Int16Max - 1, 300}

\* symbols written over a symbol of a stored bitstream
CraftSymbols == {0, EscapeCode, 9}

\* ---- state --------------------------------------------------------------
VARIABLES
    frames,      \* compress: the argument frames
    enc_pc,      \* compress: "idle", "loop", "done" or "error"
    enc_err,     \* compress: the exception raised, or "none"
    enc_H,       \* compress: H
    enc_W,       \* compress: W
    enc_idx,     \* compress: number of frames of the for loop completed
    enc_ref,     \* compress: ref_frame
    file,        \* the bytes of the container file
    edited,      \* whether the stored file was modified after compress
    dec_pc,      \* decompress: "idle", "loop", "done" or "error"
    dec_err,     \* decompress: the exception raised, or "none"
    dec_pos,     \* decompress: the offset of f
    n_frames,    \* decompress: n_frames
    dec_H,       \* decompress: H
    dec_W,       \* decompress: W
    dec_idx,     \* decompress: number of iterations of the for loop completed
    dec_ref,     \* decompress: ref_frame
    dec_rec,     \* decompress: bin_len, dec_len, binary_data, decimal_data of
                 \* the last record read (a sequence of at most one record)
    dec_delta,   \* decompress: delta of every record decoded so far, in order
    frames_out,  \* decompress: frames_out
    sym          \* one delta taken through the symbol mapping and back

vars == <<frames, enc_pc, enc_err, enc_H, enc_W, enc_idx, enc_ref, file, edited,
          dec_pc, dec_err, dec_pos, n_frames, dec_H, dec_W, dec_idx, dec_ref,
          dec_rec, dec_delta, frames_out, sym>>

encVars == <<frames, enc_pc, enc_err, enc_H, enc_W, enc_idx, enc_ref>>

decVars == <<dec_pc, dec_err, dec_pos, n_frames, dec_H, dec_W, dec_idx, dec_ref,
             dec_rec, dec_delta, frames_out>>

SymIdle == [pc |-> "idle", d |-> 0, val |-> 0, side |-> <<>>, back |-> 0]

CodecInit ==
    /\ frames = <<>>
    /\ enc_pc = "idle"
    /\ enc_err = "none"
    /\ enc_H = 0
    /\ enc_W = 0
    /\ enc_idx = 0
    /\ enc_ref = <<>>
    /\ file = <<>>
    /\ edited = FALSE
    /\ dec_pc = "idle"
    /\ dec_err = "none"
    /\ dec_pos = 0
    /\ n_frames = 0
    /\ dec_H = 0
    /\ dec_W = 0
    /\ dec_idx = 0
    /\ dec_ref = <<>>
    /\ dec_rec = <<>>
    /\ dec_delta = <<>>
    /\ frames_out = <<>>

Init == CodecInit /\ sym = SymIdle

\* ---- compress -----------------------------------------------------------
\* the call, the two checks, the header
CompressEnter ==
    /\ enc_pc = "idle"
    /\ \E fs \in ValidInputs \cup InvalidInputs :
        /\ frames' = fs
        /\ IF Len(fs) = 0
           THEN /\ enc_pc' = "error"
                /\ enc_err' = "ValueError: No frames provided"
                /\ UNCHANGED <<enc_H, enc_W, enc_ref, file>>
           ELSE IF Shape(fs[1])[3] # 3
           THEN /\ enc_pc' = "error"
                /\ enc_err' = "ValueError: Frames must be RGB (3 channels)"
                /\ UNCHANGED <<enc_H, enc_W, enc_ref, file>>
           ELSE /\ enc_pc' = "loop"
                /\ enc_err' = "none"
                /\ enc_H' = Shape(fs[1])[1]
                /\ enc_W' = Shape(fs[1])[2]
                /\ enc_ref' = Zeros(Shape(fs[1])[1], Shape(fs[1])[2], 3)
                /\ file' = version \o PackI(Len(fs)) \o PackI(Shape(fs[1])[1])
                                   \o PackI(Shape(fs[1])[2])
    /\ UNCHANGED <<enc_idx, edited, sym>>
    /\ UNCHANGED decVars

\* one iteration of for frame in frames
CompressFrame ==
    /\ enc_pc = "loop"
    /\ enc_idx < Len(frames)
    /\ LET frame_int == frames[enc_idx + 1]
       IN  IF ~BroadcastOK(Shape(frame_int), Shape(enc_ref))
           THEN /\ enc_pc' = "error"
                /\ enc_err' = "ValueError: operands could not be broadcast"
                /\ UNCHANGED <<enc_idx, enc_ref, file>>
           ELSE LET delta == Subtract(frame_int, enc_ref)
                    st == PackFrame(delta, enc_H, enc_W)
                IN  IF st.status # "ok"
                    THEN /\ enc_pc' = "error"
                         /\ enc_err' = st.status
                         /\ UNCHANGED <<enc_idx, enc_ref, file>>
                    ELSE /\ file' = file \o RecordBytes(st)
                         /\ enc_ref' = EncNextRef(frame_int, enc_ref)
                         /\ enc_idx' = enc_idx + 1
                         /\ UNCHANGED <<enc_pc, enc_err>>
    /\ UNCHANGED <<frames, enc_H, enc_W, edited, sym>>
    /\ UNCHANGED decVars

\* the file is closed and compress returns
CompressReturn ==
    /\ enc_pc = "loop"
    /\ enc_idx = Len(frames)
    /\ enc_pc' = "done"
    /\ UNCHANGED <<frames, enc_err, enc_H, enc_W, enc_idx, enc_ref, file, edited, sym>>
    /\ UNCHANGED decVars

\* ---- the stored file between compress and decompress ---------------------
\* offset of record k (0-based) of a file made of a header and whole records
RECURSIVE RecStart(_, _)
RecStart(data, k) ==
    IF k = 0 THEN 16
    ELSE LET s == RecStart(data, k - 1)
         IN  s + 8 + UnpackI(SubSeq(data, s + 1, s + 4))
                   + UnpackI(SubSeq(data, s + 5, s + 8))

\* number of whole records of such a file
RECURSIVE NumRecords(_, _)
NumRecords(data, k) ==
    IF RecStart(data, k) + 8 > Len(data) THEN k ELSE NumRecords(data, k + 1)

BinLenAt(data, k) == UnpackI(SubSeq(data, RecStart(data, k) + 1, RecStart(data, k) + 4))

DecLenAt(data, k) == UnpackI(SubSeq(data, RecStart(data, k) + 5, RecStart(data, k) + 8))

\* data with the bytes at offsets from..from+Len(bytes)-1 replaced
Overwrite(data, from, bytes) ==
    SubSeq(data, 1, from) \o bytes \o SubSeq(data, from + Len(bytes) + 1, Len(data))

Stored == enc_pc \in {"done", "error"} /\ Len(file) >= 16 /\ dec_pc = "idle" /\ ~edited

\* the last n bytes of the bitstream of record k are removed and
\* bitstreamByteLength is reduced to match
TruncateBitstream ==
    /\ Stored
    /\ \E k \in 0..(NumRecords(file, 0) - 1) : \E n \in 1..BinLenAt(file, k) :
         LET s == RecStart(file, k)
             b == BinLenAt(file, k)
         IN  file' = SubSeq(file, 1, s) \o PackI(b - n)
                       \o SubSeq(file, s + 5, s + 8 + b - n)
                       \o SubSeq(file, s + 8 + b + 1, Len(file))
    /\ edited' = TRUE
    /\ UNCHANGED <<sym>>
    /\ UNCHANGED encVars
    /\ UNCHANGED decVars

\* sideChannelByteLength of record k is altered, the payload is not
AlterSideLength ==
    /\ Stored
    /\ \E k \in 0..(NumRecords(file, 0) - 1) : \E v \in 0..(DecLenAt(file, k) + 2) :
         /\ v # DecLenAt(file, k)
         /\ v >= DecLenAt(file, k) - 2
         /\ file' = Overwrite(file, RecStart(file, k) + 4, PackI(v))
    /\ edited' = TRUE
    /\ UNCHANGED <<sym>>
    /\ UNCHANGED encVars
    /\ UNCHANGED decVars

\* the file is cut short after its first n bytes
CutFile ==
    /\ enc_pc \in {"done", "error"} /\ Len(file) > 0 /\ dec_pc = "idle" /\ ~edited
    /\ \E n \in 0..(Len(file) - 1) : file' = SubSeq(file, 1, n)
    /\ edited' = TRUE
    /\ UNCHANGED <<sym>>
    /\ UNCHANGED encVars
    /\ UNCHANGED decVars

\* side-channel entry j of record k is replaced by another 16-bit value
AlterSideValue ==
    /\ Stored
    /\ \E k \in 0..(NumRecords(file, 0) - 1) :
       \E j \in 0..((DecLenAt(file, k) \div 2) - 1) : \E v \in CraftValues :
         file' = Overwrite(file, RecStart(file, k) + 8 + BinLenAt(file, k) + 2 * j,
                           PackH(v))
    /\ edited' = TRUE
    /\ UNCHANGED <<sym>>
    /\ UNCHANGED encVars
    /\ UNCHANGED decVars

\* symbol i of the bitstream of record k is replaced by another symbol
AlterSymbol ==
    /\ Stored
    /\ \E k \in 0..(NumRecords(file, 0) - 1) :
       \E i \in 0..(2 * BinLenAt(file, k) - 1) : \E v \in CraftSymbols :
         LET at == RecStart(file, k) + 8 + (i \div 2)
             old == file[at + 1]
             new == IF i % 2 = 0 THEN 16 * v + (old % 16) ELSE 16 * (old \div 16) + v
         IN  /\ new # old
             /\ file' = Overwrite(file, at, <<new>>)
    /\ edited' = TRUE
    /\ UNCHANGED <<sym>>
    /\ UNCHANGED encVars
    /\ UNCHANGED decVars

\* ---- decompress ---------------------------------------------------------
\* the call, the magic, the header
DecompressEnter ==
    /\ enc_pc \in {"done", "error"}
    /\ Len(file) > 0 \/ edited
    /\ dec_pc = "idle"
    /\ LET magic == Read(file, 0, 4)
           hdr == Read(file, 4, 12)
       IN  IF magic # version
           THEN /\ dec_pc' = "error"
                /\ dec_err' = "ValueError: Not a 2PFx file"
                /\ dec_pos' = Len(magic)
                /\ UNCHANGED <<n_frames, dec_H, dec_W, dec_ref>>
           ELSE IF Len(hdr) # 12
           THEN /\ dec_pc' = "error"
                /\ dec_err' = "struct.error"
                /\ dec_pos' = 4 + Len(hdr)
                /\ UNCHANGED <<n_frames, dec_H, dec_W, dec_ref>>
           ELSE /\ dec_pc' = "loop"
                /\ dec_err' = "none"
                /\ dec_pos' = 16
                /\ n_frames' = UnpackI(SubSeq(hdr, 1, 4))
                /\ dec_H' = UnpackI(SubSeq(hdr, 5, 8))
                /\ dec_W' = UnpackI(SubSeq(hdr, 9, 12))
                /\ dec_ref' = Zeros(UnpackI(SubSeq(hdr, 5, 8)),
                                    UnpackI(SubSeq(hdr, 9, 12)), 3)
    /\ UNCHANGED <<dec_idx, dec_rec, dec_delta, frames_out, file, edited, sym>>
    /\ UNCHANGED encVars

\* one iteration of for _ in range(n_frames)
DecompressFrame ==
    /\ dec_pc = "loop"
    /\ dec_idx < n_frames
    /\ LET lens == Read(file, dec_pos, 8)
       IN  IF Len(lens) # 8
           THEN /\ dec_pc' = "error"
                /\ dec_err' = "struct.error"
                /\ dec_pos' = dec_pos + Len(lens)
                /\ dec_rec' = <<>>
                /\ UNCHANGED <<dec_idx, dec_ref, dec_delta, frames_out>>
           ELSE LET bin_len == UnpackI(SubSeq(lens, 1, 4))
                    dec_len == UnpackI(SubSeq(lens, 5, 8))
                    binary_data == Read(file, dec_pos + 8, bin_len)
                    decimal_data == Read(file, dec_pos + 8 + Len(binary_data), dec_len)
                    rec == [bin_len |-> bin_len, dec_len |-> dec_len,
                            binary_data |-> binary_data, decimal_data |-> decimal_data]
                    st == UnpackFrame(rec, dec_H, dec_W)
                    frame_int == AddInt16(dec_ref, st.delta)
                IN  /\ dec_rec' = <<rec>>
                    /\ dec_pos' = dec_pos + 8 + Len(binary_data) + Len(decimal_data)
                    /\ IF st.status # "ok"
                       THEN /\ dec_pc' = "error"
                            /\ dec_err' = st.status
                            /\ UNCHANGED <<dec_idx, dec_ref, dec_delta, frames_out>>
                       ELSE /\ dec_delta' = Append(dec_delta, st.delta)
                            /\ frames_out' = Append(frames_out, Clip(frame_int))
                            /\ dec_ref' = DecNextRef(frame_int)
                            /\ dec_idx' = dec_idx + 1
                            /\ UNCHANGED <<dec_pc, dec_err>>
    /\ UNCHANGED <<n_frames, dec_H, dec_W, file, edited, sym>>
    /\ UNCHANGED encVars

\* return frames_out
DecompressReturn ==
    /\ dec_pc = "loop"
    /\ dec_idx = n_frames
    /\ dec_pc' = "done"
    /\ UNCHANGED <<dec_err, dec_pos, n_frames, dec_H, dec_W, dec_idx, dec_ref,
                   dec_rec, dec_delta, frames_out, file, edited, sym>>
    /\ UNCHANGED encVars

Next ==
    \/ CompressEnter
    \/ CompressFrame
    \/ CompressReturn
    \/ TruncateBitstream
    \/ AlterSideLength
    \/ CutFile
    \/ AlterSideValue
    \/ AlterSymbol
    \/ DecompressEnter
    \/ DecompressFrame
    \/ DecompressReturn

Spec == Init /\ [][Next]_vars

\* ---- one delta through the symbol mapping and back ----------------------
SymInit ==
    /\ CodecInit
    /\ sym \in {[pc |-> "input", d |-> d, val |-> 0, side |-> <<>>, back |-> 0] :
                    d \in (-MaxChannel)..MaxChannel}

\* the encoder's loop body applied to the delta sym.d
SymEncode ==
    /\ sym.pc = "input"
    /\ LET st == PutComp(PackStart, sym.d)
       IN  sym' = [sym EXCEPT !.pc = "encoded",
                              !.val = st.current_byte,
                              !.side = st.decimal_vals]
    /\ UNCHANGED <<file, edited>>
    /\ UNCHANGED encVars
    /\ UNCHANGED decVars

\* the decoder's loop body applied to the symbol and its side channel
SymDecode ==
    /\ sym.pc = "encoded"
    /\ LET rec == [bin_len |-> 1, dec_len |-> Len(sym.side),
                   binary_data |-> <<sym.val * 16>>, decimal_data |-> sym.side]
           st == DecOne(UnpackStart(rec.binary_data, 1, 1), rec, 0, 0, 0)
       IN  sym' = [sym EXCEPT !.pc = IF st.status = "ok" /\ st.dec_offset = Len(sym.side)
                                     THEN "decoded" ELSE "failed",
                              !.back = st.delta[1][1][1]]
    /\ UNCHANGED <<file, edited>>
    /\ UNCHANGED encVars
    /\ UNCHANGED decVars

SymNext == SymEncode \/ SymDecode

SymSpec == SymInit /\ [][SymNext]_vars

\* ---- what the claims speak of --------------------------------------------
\* compress was given a valid list and the file is as compress wrote it
Faithful == enc_pc \in {"loop", "done"} /\ IsValidInput(frames) /\ ~edited

\* number of symbols of one frame
SymbolCount(H, W) == H * W * 3

\* the true delta at scan position i (0-based, row-major, channels R,G,B) of
\* input frame k (1-based) against input frame k-1, or against zero for k = 1
TrueDelta(k, i) ==
    LET y == (i \div (3 * enc_W)) + 1
        x == ((i \div 3) % enc_W) + 1
        c == (i % 3) + 1
    IN  frames[k][y][x][c] - (IF k = 1 THEN 0 ELSE frames[k - 1][y][x][c])

\* the symbol the format assigns to a delta
FormatSymbol(d) ==
    IF 0 <= d /\ d <= 7 THEN d
    ELSE IF -7 <= d /\ d <= -1 THEN 8 - d
    ELSE 8

\* the 16-bit two's-complement little-endian bytes of d
FormatLE16(d) == <<((d + 65536) % 65536) % 256, ((d + 65536) % 65536) \div 256>>

\* symbol i (0-based) of a bitstream: even symbols in the high nibble
Nibble(bytes, i) ==
    IF i % 2 = 0 THEN bytes[(i \div 2) + 1] \div 16 ELSE bytes[(i \div 2) + 1] % 16

EscapeCountIn(bytes, n) == Cardinality({i \in 0..(n - 1) : Nibble(bytes, i) = 8})

\* the bitstream and the side channel of record r (0-based) of the file
BitstreamOf(r) ==
    SubSeq(file, RecStart(file, r) + 9, RecStart(file, r) + 8 + BinLenAt(file, r))

SideOf(r) ==
    SubSeq(file, RecStart(file, r) + 9 + BinLenAt(file, r),
                 RecStart(file, r) + 8 + BinLenAt(file, r) + DecLenAt(file, r))

\* the side channel the format prescribes for frame k, from scan position i on
RECURSIVE FormatSide(_, _, _)
FormatSide(k, i, n) ==
    IF i >= n THEN <<>>
    ELSE (IF Abs(TrueDelta(k, i)) > 7 THEN FormatLE16(TrueDelta(k, i)) ELSE <<>>)
            \o FormatSide(k, i + 1, n)

Positions(a) ==
    {p \in (1..Len(a)) \X (1..Len(a[1])) \X (1..3) : TRUE}

\* the mathematical sum of the first k decoded deltas at one position
RECURSIVE ExactSum(_, _, _)
ExactSum(log, k, p) ==
    IF k = 0 THEN 0 ELSE ExactSum(log, k - 1, p) + log[k][p[1]][p[2]][p[3]]

Reduce16(n) == ((n + 32768) % 65536) - 32768

Clamp(n) == IF n < 0 THEN 0 ELSE IF n > 255 THEN 255 ELSE n

\* ---- claims -------------------------------------------------------------

\* C1: round trip.  When decompress returns from the file that compress wrote
\* for a valid frame list, it returns as many frames as were given and every
\* frame equals its input frame in every pixel and channel; it never fails on
\* such a file.
C1_RoundTrip ==
    Faithful =>
        /\ dec_pc # "error"
        /\ dec_pc = "done" =>
              /\ Len(frames_out) = Len(frames)
              /\ \A k \in 1..Len(frames) : \A p \in Positions(frames[k]) :
                    frames_out[k][p[1]][p[2]][p[3]] = frames[k][p[1]][p[2]][p[3]]

\* a two-frame sequence with an odd symbol count and escapes in both records
\* has been decoded
C1_Witness ==
    /\ Faithful
    /\ dec_pc = "done"
    /\ Len(frames) >= 2
    /\ SymbolCount(enc_H, enc_W) % 2 = 1
    /\ DecLenAt(file, 0) > 0
    /\ DecLenAt(file, 1) > 0
    /\ frames[1] # frames[2]
    /\ frames_out = frames

\* C2 (as claimed): a record whose bitstream holds fewer than H*W*3 symbols
\* makes decompress fail; it is never decoded with the missing symbols
\* defaulted.
C2_TruncationDetected ==
    (Len(dec_rec) = 1 /\ 2 * Len(dec_rec[1].binary_data) < SymbolCount(dec_H, dec_W))
        => dec_pc = "error"

\* C3: side-channel length mismatch.  When a record's bitstream holds all
\* H*W*3 symbols and its declared sideChannelByteLength differs from twice the
\* number of escape symbols among them, decompress fails and returns nothing;
\* when the file holds the declared number of side-channel bytes the error is
\* the escape-exhaustion or the consumed/declared mismatch error.
C3_SideLengthMismatch ==
    (/\ Len(dec_rec) = 1
     /\ 2 * Len(dec_rec[1].binary_data) >= SymbolCount(dec_H, dec_W)
     /\ dec_rec[1].dec_len #
            2 * EscapeCountIn(dec_rec[1].binary_data, SymbolCount(dec_H, dec_W)))
        => /\ dec_pc = "error"
           /\ dec_err # "none"
           /\ Len(frames_out) = dec_idx
           /\ Len(dec_rec[1].decimal_data) = dec_rec[1].dec_len =>
                 dec_err \in {"ValueError: Missing large delta bytes",
                              "ValueError: Decimal data mismatch"}

\* a record with a complete bitstream and a declared length that is larger
\* than its escapes need has been rejected
C3_Witness ==
    /\ Len(dec_rec) = 1
    /\ 2 * Len(dec_rec[1].binary_data) >= SymbolCount(dec_H, dec_W)
    /\ dec_rec[1].dec_len >
            2 * EscapeCountIn(dec_rec[1].binary_data, SymbolCount(dec_H, dec_W))
    /\ EscapeCountIn(dec_rec[1].binary_data, SymbolCount(dec_H, dec_W)) > 0
    /\ dec_err = "ValueError: Decimal data mismatch"

\* C4 (as claimed): an empty list, a first frame that is not RGB, or frames of
\* differing dimensions make compress raise the invalid-input error before
\* any byte is written.
C4_InvalidInputRejected ==
    (enc_pc # "idle" /\ ~IsValidInput(frames))
        => /\ enc_pc = "error"
           /\ enc_err \in {"ValueError: No frames provided",
                           "ValueError: Frames must be RGB (3 channels)"}
           /\ file = <<>>

\* C5: symbol unambiguity.  For every delta d in -255..255 the encoder's
\* symbol is 8 exactly when |d| > 7, is d for 0 <= d <= 7 and is 8|(-d), in
\* 9..15, for -7 <= d <= -1; the decoder's mapping of that symbol, with the
\* side-channel value when it is 8, gives d back.
C5_SymbolUnambiguity ==
    sym.pc \in {"encoded", "decoded", "failed"} =>
        /\ (sym.val = 8) <=> (Abs(sym.d) > 7)
        /\ (0 <= sym.d /\ sym.d <= 7) => sym.val = sym.d
        /\ (-7 <= sym.d /\ sym.d <= -1) => (sym.val = 8 - sym.d /\ sym.val \in 9..15)
        /\ sym.pc # "failed"
        /\ sym.pc = "decoded" => sym.back = sym.d

\* the delta -200 has gone through the escape path and back
C5_Witness ==
    sym.pc = "decoded" /\ sym.d = -200 /\ sym.val = 8 /\ sym.back = -200

\* C6: bitstream length law.  Every record compress writes for a valid list
\* has bitstreamByteLength = ceil(H*W*3/2) and that many bitstream bytes;
\* symbol 2k is the high nibble and symbol 2k+1 the low nibble of byte k, and
\* with an odd symbol count the low nibble of the last byte is 0.
C6_BitstreamLength ==
    Faithful =>
        /\ NumRecords(file, 0) = enc_idx
        /\ \A r \in 0..(enc_idx - 1) :
            LET n == SymbolCount(enc_H, enc_W)
            IN  /\ BinLenAt(file, r) = (n + 1) \div 2
                /\ RecStart(file, r) + 8 + BinLenAt(file, r) <= Len(file)
                /\ \A i \in 0..(n - 1) :
                      Nibble(BitstreamOf(r), i) = FormatSymbol(TrueDelta(r + 1, i))
                /\ n % 2 = 1 => BitstreamOf(r)[(n + 1) \div 2] % 16 = 0

\* a record with an odd symbol count whose last symbol is not 0 was written
C6_Witness ==
    /\ Faithful
    /\ enc_idx >= 1
    /\ SymbolCount(enc_H, enc_W) % 2 = 1
    /\ BitstreamOf(0)[BinLenAt(file, 0)] \div 16 # 0
    /\ BitstreamOf(0)[BinLenAt(file, 0)] % 16 = 0

\* C7: side-channel accounting.  Every record compress writes for a valid list
\* has sideChannelByteLength = 2 * (number of symbols 8 in its bitstream) and
\* that many side-channel bytes, which are the 16-bit little-endian signed
\* deltas of the escapes in scan order.
C7_SideChannelAccounting ==
    Faithful =>
        /\ Len(file) = RecStart(file, enc_idx)
        /\ \A r \in 0..(enc_idx - 1) :
            LET n == SymbolCount(enc_H, enc_W)
            IN  /\ 2 * BinLenAt(file, r) >= n
                /\ DecLenAt(file, r) = 2 * EscapeCountIn(BitstreamOf(r), n)
                /\ SideOf(r) = FormatSide(r + 1, 0, n)

\* a second record with two or more escapes, one of them negative, was written
C7_Witness ==
    /\ Faithful
    /\ enc_idx >= 2
    /\ DecLenAt(file, 1) >= 4
    /\ \E i \in 0..(SymbolCount(enc_H, enc_W) - 1) : TrueDelta(2, i) < -7

\* C8 (as claimed): the decoder never unpacks the header, a length pair or a
\* side-channel value from a buffer that is too short; every shortfall is the
\* format error.
C8_LengthsValidated == dec_err # "struct.error"

\* C9: reference synchronisation.  On the file compress wrote for a valid list
\* both references are all-zero before frame 0, the encoder's reference after
\* frame k is input frame k, and so is the decoder's; every decoder sum
\* reference + delta is the true value in 0..255 and equals the output frame.
C9_ReferenceSync ==
    Faithful =>
        /\ enc_ref = IF enc_idx = 0 THEN Zeros(enc_H, enc_W, 3) ELSE frames[enc_idx]
        /\ dec_pc \in {"loop", "done"} =>
              /\ dec_ref = IF dec_idx = 0 THEN Zeros(enc_H, enc_W, 3)
                           ELSE frames[dec_idx]
              /\ \A k \in 1..dec_idx : \A p \in Positions(frames[k]) :
                    LET sum == (IF k = 1 THEN 0 ELSE frames[k - 1][p[1]][p[2]][p[3]])
                                  + dec_delta[k][p[1]][p[2]][p[3]]
                    IN  /\ sum \in 0..255
                        /\ sum = frames[k][p[1]][p[2]][p[3]]
                        /\ frames_out[k][p[1]][p[2]][p[3]] = sum

\* the decoder has followed the encoder through two different frames
C9_Witness ==
    /\ Faithful
    /\ dec_pc = "loop"
    /\ dec_idx = 2
    /\ frames[1] # frames[2]
    /\ dec_ref = frames[2]
    /\ enc_ref = frames[2]

\* C10 (as claimed): in every container decompress accepts, the reference is
\* the exact running sum of the deltas decoded so far.
C10_NoWraparound ==
    dec_pc = "done" =>
        \A p \in Positions(dec_ref) : dec_ref[p[1]][p[2]][p[3]] = ExactSum(dec_delta, dec_idx, p)

\* C10 (amended): in every container decompress accepts, the reference after
\* each frame is the running sum of the decoded deltas reduced modulo 2^16
\* into -32768..32767, never the clipped value, and it is the exact sum
\* whenever that sum lies in -32768..32767; the output frame is the clip of
\* the reduced sum to 0..255.
C10_SumModulo16 ==
    dec_pc \in {"loop", "done"} =>
        /\ Len(dec_delta) = dec_idx
        /\ Len(frames_out) = dec_idx
        /\ \A p \in Positions(dec_ref) :
            /\ dec_ref[p[1]][p[2]][p[3]] = Reduce16(ExactSum(dec_delta, dec_idx, p))
            /\ ExactSum(dec_delta, dec_idx, p) \in (-32768)..32767
                  => dec_ref[p[1]][p[2]][p[3]] = ExactSum(dec_delta, dec_idx, p)
            /\ \A k \in 1..dec_idx :
                  frames_out[k][p[1]][p[2]][p[3]] = Clamp(Reduce16(ExactSum(dec_delta, k, p)))

\* an accepted container whose running sum left the 16-bit range
C10_Witness ==
    /\ dec_pc = "done"
    /\ dec_idx >= 2
    /\ \E p \in Positions(dec_ref) :
          /\ ExactSum(dec_delta, dec_idx, p) > 32767
          /\ dec_ref[p[1]][p[2]][p[3]] < 0

====
